---- MODULE Spec2Model ----
(***************************************************************************)
(* A model of the Ollama memory proxy: the MemoryManager store             *)
(* (memory_manager.py) with its lock, its unlocked reads and its two-file  *)
(* persistence, and the request handlers of proxy.py that drive it.        *)
(*                                                                         *)
(* Positions in the index and in _id_map are 1-based here (TLA+ sequences) *)
(* where the source is 0-based; ids start at 0 as in the source.           *)
(*                                                                         *)
(* A thread's step is one access to the shared store.  The statements that *)
(* touch only the thread's own data (normalising the vector, building the  *)
(* metadata dict, the call and the return) are folded into the access that *)
(* follows or precedes them.                                               *)
(***************************************************************************)
EXTENDS Integers, Sequences, FiniteSets, TLC

VARIABLES
    index,       \* self._index: the vectors of the FAISS index, in insertion order
    id_map,      \* self._id_map: position -> context id
    metadata,    \* self._metadata: context id -> metadata dict
    next_id,     \* self._next_id
    lock,        \* self._lock: the thread holding it, or NoThread
    faiss_file,  \* faiss_index.bin on disk
    meta_file,   \* metadata.pkl on disk
    pc,          \* per thread: the statement of the store method it is about to run
    local,       \* per thread: the locals of the store method it runs, then its result
    returned,    \* history: how many times each id was returned by store_message
    req,         \* per request handler: the request it serves, the locals of the
                 \*          handler, what the backend was sent and what the caller got
    task,        \* per background task: the arguments of _store_conversation, and
                 \*          (history) whether the response of its request was relayed
    saved,       \* history: the store as the last complete save found it, while
                 \*          both files on disk are still the ones that save wrote
    boots,       \* history: how many times the process was restarted
    served,      \* history: how many requests the proxy has received
    fn           \* a call of one of the pure functions: its arguments, then its result

storeVars == <<index, id_map, metadata, next_id, lock>>
diskVars == <<faiss_file, meta_file>>
vars == <<index, id_map, metadata, next_id, lock, faiss_file, meta_file,
          pc, local, req, task, returned, saved, boots, served, fn>>

----------------------------------------------------------------------------
(* Bounds of the model *)

\* store_message calls per process life (caps next_id)
MaxInserts == 3
\* store_message calls per process life where the process restarts or serves requests
MaxStored == 2
\* process restarts
MaxRestarts == 1

\* lines of a streamed backend response
MaxChunks == 2
\* requests the proxy receives
MaxRequests == 2

(* Threads: callers of the store API; the request handler of the proxy, with
   the worker threads it awaits, serving one request after another; the
   background tasks that can be alive at a time (a handler that creates one
   waits for a free one) *)
Callers == {"c1", "c2"}
Handlers == {"h1"}
Writers == {"w1"}
\* the background tasks that can exist at one time: the one the handlers of
\* the proxy create, and a second one for writes that run side by side
BackgroundTasks == Writers \cup {"w2"}
Threads == Callers \cup Handlers \cup BackgroundTasks
NoThread == "none"

(* Inputs. A text is a sequence of words *)
NoText == <<>>
Messages == {[text |-> <<"ta">>, role |-> "user"], [text |-> <<"tb">>, role |-> "assistant"]}
NoMsg == [text |-> <<"-">>, role |-> "-"]
\* the {} that metadata.get(ctx_id, {}) falls back to
EmptyDict == [text |-> <<"<none>">>, role |-> "<none>"]
EmptyMeta == [i \in {} |-> NoMsg]

NoFile == [kind |-> "absent"]
CorruptFile == [kind |-> "corrupt"]

----------------------------------------------------------------------------
(* The embedding port and the index's inner product, in tenths *)

Embed(text) == text
Queries == {<<"ta">>}
Sim(q, v) == IF q = v THEN 10 ELSE 2

----------------------------------------------------------------------------
(* Requests, bodies and responses of the proxy *)

\* the memory block: "" or the base prompt followed by one section
NoBlock == [kind |-> "empty", section |-> "-", total |-> 0, lines |-> <<>>]

\* a string a block may have been joined to: the text, then the block, after
\* the separator "\n\n---\n" where sep is TRUE
Plain(text) == [text |-> text, sep |-> FALSE, block |-> NoBlock]

UserMsg(text) == [role |-> "user", content |-> Plain(text)]
SystemMsg(text) == [role |-> "system", content |-> Plain(text)]

\* the JSON object of a request: messages (/api/chat), prompt and system (/api/generate)
EmptyBody == [messages |-> <<>>, prompt |-> NoText, system |-> Plain(NoText)]
ChatBodies ==
    {[EmptyBody EXCEPT !.messages = m] :
        m \in {<<>>, <<UserMsg(<<"ta">>)>>, <<UserMsg(<<"hi">>)>>,
               <<SystemMsg(<<"sys">>), UserMsg(<<"ta">>)>>}}
GenerateBodies ==
    {[EmptyBody EXCEPT !.prompt = p, !.system = Plain(s)] :
        p \in {NoText, <<"ta">>}, s \in {NoText, <<"sys">>}}

\* the bytes of a request body: bytes that are no JSON even after the
\* permissive decoding, or JSON that is no object
NoRaw == ""
RawBodies == {"xff", "bad"}
NotObject == "[]"

\* a request body as received: its bytes and what json.loads makes of them
\* (an object, with the dict in body; JSON of another type; or an exception).
\* The bytes of an object are stood for by the dict
ParsedBodies(bodies) == {[raw |-> NoRaw, parse |-> "object", body |-> b] : b \in bodies}
UnparsedBodies ==
    {[raw |-> r, parse |-> "unparseable", body |-> EmptyBody] : r \in RawBodies}
    \cup {[raw |-> NotObject, parse |-> "not_object", body |-> EmptyBody]}
ChatRequests == ParsedBodies(ChatBodies) \cup UnparsedBodies
GenerateRequests == ParsedBodies(GenerateBodies) \cup UnparsedBodies

\* what the backend answers: status, content-type header ("none": no such
\* header), and a body that is a JSON object carrying a text, or is no JSON
Reply(status, ctype, json, text) ==
    [status |-> status, ctype |-> ctype, body |-> [json |-> json, text |-> text]]
NoReply == Reply(0, "none", FALSE, NoText)
MemoryReplies ==
    {Reply(200, "application/json", TRUE, <<"he", "he">>),
     Reply(200, "application/json", TRUE, <<"NO">>),
     Reply(500, "text/plain", FALSE, NoText)}
OtherReplies ==
    {Reply(200, "application/json", TRUE, NoText),
     Reply(404, "application/json", TRUE, NoText),
     Reply(200, "none", FALSE, NoText)}

\* a line of a streamed backend response: blank, or a JSON object with its
\* content (message.content or response)
StreamLines ==
    {[kind |-> "json", content |-> <<"he">>],
     [kind |-> "blank", content |-> NoText]}

NotSent == [kind |-> "none", body |-> EmptyBody, raw |-> NoRaw]
NoGot == [status |-> 0, ctype |-> "none", body |-> <<>>]

DefaultReq ==
    [endpoint |-> "-", method |-> "-", stream |-> FALSE,
     raw |-> NoRaw,               \* the bytes received, when they were not parsed
     orig |-> EmptyBody,          \* the body as received
     body |-> EmptyBody,          \* the handler's body dict
     user_text |-> NoText,
     search_failed |-> FALSE,     \* the except clause of the memory search was taken
     results |-> <<>>, total |-> 0, block |-> NoBlock,
     sent |-> NotSent,            \* what the backend was sent
     reply |-> NoReply,           \* what the backend answered
     got |-> NoGot,               \* what the caller has received so far
     relayed |-> FALSE,           \* the caller has received the whole response
     proxy_error |-> FALSE,       \* the handler raised: the response is the server's 500
     emitted |-> <<>>,            \* history: the lines the backend has streamed
     collected |-> <<>>, assistant_text |-> NoText,
     writer |-> NoThread]         \* the background task the handler created

\* the request once its body was sent and the backend answers: the handler's
\* body dict, its results and its block are dead from then on; user_text lives
\* on as the argument of _store_conversation
AfterSend(r) ==
    [r EXCEPT !.orig = EmptyBody, !.body = EmptyBody, !.search_failed = FALSE, !.results = <<>>,
              !.total = 0, !.block = NoBlock, !.sent = [kind |-> "answered", body |-> EmptyBody, raw |-> NoRaw]]

\* the request once the background write was created or given up: user_text
\* is dead too
AfterTask(r) == [AfterSend(r) EXCEPT !.user_text = NoText]

\* the request once its stream has ended: the lines and the collected
\* fragments are dead as well
AfterStream(r) ==
    [AfterTask(r) EXCEPT !.emitted = <<>>, !.collected = <<>>, !.got.body = <<>>]

DefaultTask ==
    [user_text |-> NoText, assistant_text |-> NoText, relayed |-> FALSE,
     streamed |-> FALSE,          \* history: the task was created at the end of a chat stream
     fragments |-> NoText]        \* history: the content the backend streamed, concatenated

\* len() of a word, and of a text
WordLen(w) ==
    CASE w = "ta" -> 15
      [] w = "tb" -> 30
      [] w \in {"no", "NO"} -> 40
      [] w = "sys" -> 10
      [] w = "he" -> 12
      [] w \in {"a", "b", "c", "d", "e", "f", "g", "h", "i", "j"} -> 1
      [] OTHER -> 2

RECURSIVE TextLen(_)
TextLen(text) == IF text = <<>> THEN 0 ELSE WordLen(Head(text)) + TextLen(Tail(text))

----------------------------------------------------------------------------
DefaultLocal ==
    [op |-> "-", msg |-> NoMsg, dimOk |-> TRUE, ctx_id |-> -1,
     q |-> NoText, top_k |-> 0, threshold |-> 0, k |-> 0,
     found |-> <<>>, results |-> <<>>, ret |-> -1,
     retpc |-> "idle", excpc |-> "idle"]

ntotal == Len(index)

EmptyStore == [index |-> <<>>, metadata |-> EmptyMeta, id_map |-> <<>>, next_id |-> 0]
StoreNow == [index |-> index, metadata |-> metadata, id_map |-> id_map, next_id |-> next_id]
NoSnapshot == [valid |-> FALSE, store |-> EmptyStore]

\* no call of a pure function is under way
NoCall == [op |-> "none"]

\* the process after MemoryManager.__init__ on an empty storage directory
InitProgram ==
    /\ index = <<>>
    /\ id_map = <<>>
    /\ metadata = EmptyMeta
    /\ next_id = 0
    /\ lock = NoThread
    /\ faiss_file = NoFile
    /\ meta_file = NoFile
    /\ pc = [t \in Threads |-> "idle"]
    /\ local = [t \in Threads |-> DefaultLocal]
    /\ req = [h \in Handlers |-> DefaultReq]
    /\ task = [w \in BackgroundTasks |-> DefaultTask]
    /\ returned = [i \in 0..MaxInserts |-> 0]
    /\ saved = NoSnapshot
    /\ boots = 0
    /\ served = 0

Init == InitProgram /\ fn = NoCall

----------------------------------------------------------------------------
(* threading.Lock: `with self._lock:` *)

\* a lock that does not exclude
AcquireNoWait(t) == lock' = t

Acquire(t) ==
    /\ lock = NoThread
    /\ lock' = t

\* a with block that does not release the lock when it is left
ReleaseNever(t) == UNCHANGED lock

Release(t) == lock' = NoThread

----------------------------------------------------------------------------
(* MemoryManager.store_message *)

\* lines 77-93: the vector is normalised and the metadata dict built (local);
\* the lock is taken; ctx_id = self._next_id; self._next_id += 1
StoreMessage(t, msg, dimOk, retpc, excpc) ==
    /\ next_id < MaxInserts
    /\ Acquire(t)
    /\ next_id' = next_id + 1
    /\ local' = [local EXCEPT ![t] = [DefaultLocal EXCEPT !.op = "store_message",
                    !.msg = msg, !.dimOk = dimOk, !.ctx_id = next_id,
                    !.retpc = retpc, !.excpc = excpc]]
    /\ pc' = [pc EXCEPT ![t] = "sm_add"]
    /\ UNCHANGED <<index, id_map, metadata, diskVars, returned, saved, boots, fn, served, req, task>>

\* the append of line 95 placed before the add of line 94: a rejected vector
\* leaves its id in the id map
SmAddAfterAppend(t) ==
    /\ pc[t] = "sm_add"
    /\ IF local[t].dimOk
       THEN /\ index' = Append(index, Embed(local[t].msg.text))
            /\ pc' = [pc EXCEPT ![t] = "sm_map"]
            /\ UNCHANGED <<lock, local, id_map>>
       ELSE /\ pc' = [pc EXCEPT ![t] = local[t].excpc]
            /\ local' = [local EXCEPT ![t] = DefaultLocal]
            /\ id_map' = Append(id_map, local[t].ctx_id)
            /\ Release(t)
            /\ UNCHANGED index
    /\ UNCHANGED <<metadata, next_id, diskVars, returned, saved, boots, fn, served, req, task>>

\* line 94: self._index.add(vec); the index rejects a vector of another dimension,
\* and the exception leaves the with block, which releases the lock
SmAdd(t) ==
    /\ pc[t] = "sm_add"
    /\ IF local[t].dimOk
       THEN /\ index' = Append(index, Embed(local[t].msg.text))
            /\ pc' = [pc EXCEPT ![t] = "sm_map"]
            /\ UNCHANGED <<lock, local>>
       ELSE /\ pc' = [pc EXCEPT ![t] = local[t].excpc]
            /\ local' = [local EXCEPT ![t] = DefaultLocal]
            /\ Release(t)
            /\ UNCHANGED index
    /\ UNCHANGED <<id_map, metadata, next_id, diskVars, returned, saved, boots, fn, served, req, task>>

\* the id is put in front of the id map: every earlier record moves by one
SmInsertMapFront(t) ==
    /\ pc[t] = "sm_map"
    /\ id_map' = <<local[t].ctx_id>> \o id_map
    /\ pc' = [pc EXCEPT ![t] = "sm_meta"]
    /\ UNCHANGED <<index, metadata, next_id, lock, diskVars, local, returned, saved, boots, fn, served, req, task>>

\* line 95: self._id_map.append(ctx_id)
SmAppendMap(t) ==
    /\ pc[t] = "sm_map"
    /\ id_map' = Append(id_map, local[t].ctx_id)
    /\ pc' = [pc EXCEPT ![t] = "sm_meta"]
    /\ UNCHANGED <<index, metadata, next_id, lock, diskVars, local, returned, saved, boots, fn, served, req, task>>

\* lines 96-98: self._metadata[ctx_id] = metadata, the lock is released, ctx_id returned
SmSetMeta(t) ==
    /\ pc[t] = "sm_meta"
    /\ metadata' = [i \in DOMAIN metadata \cup {local[t].ctx_id} |->
                        IF i = local[t].ctx_id THEN local[t].msg ELSE metadata[i]]
    /\ Release(t)
    /\ local' = [local EXCEPT ![t] = DefaultLocal]
    /\ returned' = [returned EXCEPT ![local[t].ctx_id] = @ + 1]
    /\ pc' = [pc EXCEPT ![t] = local[t].retpc]
    /\ UNCHANGED <<index, id_map, next_id, diskVars, saved, boots, fn, served, req, task>>

----------------------------------------------------------------------------
(* MemoryManager.search_relevant *)

Min(a, b) == IF a < b THEN a ELSE b

\* the best of the positions S for query q: highest inner product, the earlier
\* position on a tie
BestPos(q, ix, S) ==
    CHOOSE p \in S : \A r \in S :
        \/ Sim(q, ix[p]) > Sim(q, ix[r])
        \/ Sim(q, ix[p]) = Sim(q, ix[r]) /\ p <= r

RECURSIVE TopK(_, _, _, _)
\* self._index.search(vec, k): the k best positions, best first, with their scores
TopK(q, ix, k, S) ==
    IF k = 0 \/ S = {}
    THEN <<>>
    ELSE LET p == BestPos(q, ix, S)
         IN <<[score |-> Sim(q, ix[p]), idx |-> p]>> \o TopK(q, ix, k - 1, S \ {p})

\* the index returns every position, whatever k
IndexSearchAll(q, k) == TopK(q, index, Len(index), 1..Len(index))

\* self._index.search(vec, k), on the index as it is
IndexSearch(q, k) == TopK(q, index, k, 1..Len(index))

\* lines 107-108: if self._index.ntotal == 0: return []   (no lock held)
SearchRelevant(t, q, top_k, threshold, retpc) ==
    /\ IF ntotal = 0
       THEN /\ local' = [local EXCEPT ![t] = [DefaultLocal EXCEPT !.op = "search_relevant"]]
            /\ pc' = [pc EXCEPT ![t] = retpc]
       ELSE /\ local' = [local EXCEPT ![t] = [DefaultLocal EXCEPT !.op = "search_relevant",
                            !.q = q, !.top_k = top_k, !.threshold = threshold,
                            !.retpc = retpc]]
            /\ pc' = [pc EXCEPT ![t] = "sr_k"]
    /\ UNCHANGED <<storeVars, diskVars, returned, saved, boots, fn, served, req, task>>

\* line 116: k = min(top_k, self._index.ntotal)   (no lock held)
SrComputeK(t) ==
    /\ pc[t] = "sr_k"
    /\ local' = [local EXCEPT ![t].k = Min(local[t].top_k, ntotal)]
    /\ pc' = [pc EXCEPT ![t] = "sr_search"]
    /\ UNCHANGED <<storeVars, diskVars, returned, saved, boots, fn, served, req, task>>

\* the index searched without taking the lock
SrSearchUnlocked(t) ==
    /\ pc[t] = "sr_search"
    /\ local' = [local EXCEPT ![t].found = IndexSearch(local[t].q, local[t].k)]
    /\ pc' = [pc EXCEPT ![t] = "sr_loop"]
    /\ UNCHANGED <<storeVars, diskVars, returned, saved, boots, fn, served, req, task>>

\* lines 118-119: with self._lock: scores, indices = self._index.search(vec, k)
SrSearch(t) ==
    /\ pc[t] = "sr_search"
    /\ Acquire(t)
    /\ local' = [local EXCEPT ![t].found = IndexSearch(local[t].q, local[t].k)]
    /\ pc' = [pc EXCEPT ![t] = "sr_unlock"]
    /\ UNCHANGED <<index, id_map, metadata, next_id, diskVars, returned, saved, boots, fn, served, req, task>>

\* the end of the with block of line 118
SrUnlock(t) ==
    /\ pc[t] = "sr_unlock"
    /\ Release(t)
    /\ pc' = [pc EXCEPT ![t] = "sr_loop"]
    /\ UNCHANGED <<index, id_map, metadata, next_id, diskVars, local, returned, saved, boots, fn, served, req, task>>

\* self._metadata.get(ctx_id, {})
MetaGet(ctx_id) == IF ctx_id \in DOMAIN metadata THEN metadata[ctx_id] ELSE EmptyDict

\* the loop over the hits without the test of line 126: every hit is kept
SrLoopKeepsAll(t) ==
    /\ pc[t] = "sr_loop"
    /\ LET h == Head(local[t].found)
           keep == h.idx <= Len(id_map)
           hit == [ctx_id |-> id_map[h.idx], similarity |-> h.score,
                   metadata |-> MetaGet(id_map[h.idx])]
           results == IF keep THEN Append(local[t].results, hit) ELSE local[t].results
       IN IF Len(local[t].found) = 1
          THEN /\ local' = [local EXCEPT ![t] =
                    [DefaultLocal EXCEPT !.op = "search_relevant", !.results = results]]
               /\ pc' = [pc EXCEPT ![t] = local[t].retpc]
          ELSE /\ local' = [local EXCEPT ![t].found = Tail(@), ![t].results = results]
               /\ UNCHANGED pc
    /\ UNCHANGED <<storeVars, diskVars, returned, saved, boots, fn, served, req, task>>

\* lines 122-134: one turn of the loop over the hits, no lock held: a position
\* beyond the id map is skipped, a hit below the threshold is dropped. After
\* the last turn the results are returned
SrLoop(t) ==
    /\ pc[t] = "sr_loop"
    /\ LET h == Head(local[t].found)
           keep == h.idx <= Len(id_map) /\ h.score >= local[t].threshold
           hit == [ctx_id |-> id_map[h.idx], similarity |-> h.score,
                   metadata |-> MetaGet(id_map[h.idx])]
           results == IF keep THEN Append(local[t].results, hit) ELSE local[t].results
       IN IF Len(local[t].found) = 1
          THEN /\ local' = [local EXCEPT ![t] =
                    [DefaultLocal EXCEPT !.op = "search_relevant", !.results = results]]
               /\ pc' = [pc EXCEPT ![t] = local[t].retpc]
          ELSE /\ local' = [local EXCEPT ![t].found = Tail(@), ![t].results = results]
               /\ UNCHANGED pc
    /\ UNCHANGED <<storeVars, diskVars, returned, saved, boots, fn, served, req, task>>

----------------------------------------------------------------------------
(* MemoryManager.count: return self._index.ntotal, no lock held *)

Count(t, retpc) ==
    /\ local' = [local EXCEPT ![t] = [DefaultLocal EXCEPT !.op = "count", !.ret = ntotal]]
    /\ pc' = [pc EXCEPT ![t] = retpc]
    /\ UNCHANGED <<storeVars, diskVars, returned, saved, boots, fn, served, req, task>>

----------------------------------------------------------------------------
(* MemoryManager.save *)

\* what a file write can do: complete; fail before touching the file; fail
\* after the file was opened for writing, leaving it truncated
WriteOutcomes == {"ok", "fail_untouched", "fail_truncated"}

\* faiss.write_index(self._index, path)
IndexFileOf(ix) == [kind |-> "index", vectors |-> ix]
\* pickle.dump({"metadata": ..., "id_map": ..., "next_id": ...}, f)
MetaFileOf(md, im, nid) == [kind |-> "pickle", metadata |-> md, id_map |-> im, next_id |-> nid]

WriteFile(old, new, outcome) ==
    CASE outcome = "ok" -> new
      [] outcome = "fail_untouched" -> old
      [] OTHER -> CorruptFile

\* line 142
Save(t, retpc, excpc) ==
    /\ Acquire(t)
    /\ local' = [local EXCEPT ![t] = [DefaultLocal EXCEPT !.op = "save",
                    !.retpc = retpc, !.excpc = excpc]]
    /\ pc' = [pc EXCEPT ![t] = "sv_index"]
    /\ UNCHANGED <<index, id_map, metadata, next_id, diskVars, returned, saved, boots, fn, served, req, task>>

\* a failed write of the index file that leaves the lock held
SvWriteIndexKeepsLock(t, outcome) ==
    /\ pc[t] = "sv_index"
    /\ faiss_file' = WriteFile(faiss_file, IndexFileOf(index), outcome)
    /\ IF outcome = "ok"
       THEN /\ pc' = [pc EXCEPT ![t] = "sv_meta"]
            /\ UNCHANGED <<lock, local>>
       ELSE /\ pc' = [pc EXCEPT ![t] = local[t].excpc]
            /\ local' = [local EXCEPT ![t] = DefaultLocal]
            /\ UNCHANGED lock
    /\ saved' = IF outcome = "fail_untouched" THEN saved ELSE NoSnapshot
    /\ UNCHANGED <<index, id_map, metadata, next_id, meta_file, returned, boots, fn, served, req, task>>

\* line 143: faiss.write_index(...); an exception leaves the with block
SvWriteIndex(t, outcome) ==
    /\ pc[t] = "sv_index"
    /\ faiss_file' = WriteFile(faiss_file, IndexFileOf(index), outcome)
    /\ IF outcome = "ok"
       THEN /\ pc' = [pc EXCEPT ![t] = "sv_meta"]
            /\ UNCHANGED <<lock, local>>
       ELSE /\ pc' = [pc EXCEPT ![t] = local[t].excpc]
            /\ local' = [local EXCEPT ![t] = DefaultLocal]
            /\ Release(t)
    /\ saved' = IF outcome = "fail_untouched" THEN saved ELSE NoSnapshot
    /\ UNCHANGED <<index, id_map, metadata, next_id, meta_file, returned, boots, fn, served, req, task>>

\* lines 144-152: open(meta_path, "wb") and pickle.dump(...), then the lock is released
SvWriteMeta(t, outcome) ==
    /\ pc[t] = "sv_meta"
    /\ meta_file' = WriteFile(meta_file, MetaFileOf(metadata, id_map, next_id), outcome)
    /\ local' = [local EXCEPT ![t] = DefaultLocal]
    /\ pc' = [pc EXCEPT ![t] = IF outcome = "ok" THEN local[t].retpc ELSE local[t].excpc]
    /\ Release(t)
    /\ saved' = IF outcome = "ok" THEN [valid |-> TRUE, store |-> StoreNow] ELSE NoSnapshot
    /\ UNCHANGED <<index, id_map, metadata, next_id, faiss_file, returned, boots, fn, served, req, task>>

----------------------------------------------------------------------------
(* MemoryManager.__init__ and _load, run when the process starts *)

\* an except branch that keeps what _load had assigned before the exception
LoadFailedKeeps(partly) == partly

\* lines 60-65: the except branch of _load
LoadFailed(partly) == EmptyStore

\* _load without line 56, self._next_id = saved["next_id"]
LoadForgetsNextId(ff, mf) ==
    IF ff.kind # "index" \/ mf.kind # "pickle"
    THEN EmptyStore
    ELSE [index |-> ff.vectors, metadata |-> mf.metadata, id_map |-> mf.id_map, next_id |-> 0]

\* lines 48-65: _load. read_index raises on a damaged file, pickle.load likewise;
\* what was assigned before the exception is handed to the except branch
Load(ff, mf) ==
    IF ff.kind # "index"
    THEN LoadFailed(EmptyStore)
    ELSE LET withIndex == [EmptyStore EXCEPT !.index = ff.vectors]
         IN IF mf.kind # "pickle"
            THEN LoadFailed(withIndex)
            ELSE [withIndex EXCEPT !.metadata = mf.metadata,
                                   !.id_map = mf.id_map,
                                   !.next_id = mf.next_id]

\* lines 36-46: both files must exist for _load to run
Construct(ff, mf) ==
    IF ff.kind # "absent" /\ mf.kind # "absent"
    THEN Load(ff, mf)
    ELSE EmptyStore

\* The process stops at any point (a crash, a kill, a shutdown without the
\* final save) and is started again on the same storage directory
Restart ==
    /\ boots < MaxRestarts
    /\ boots' = boots + 1
    /\ LET s == Construct(faiss_file, meta_file)
       IN /\ index' = s.index
          /\ metadata' = s.metadata
          /\ id_map' = s.id_map
          /\ next_id' = s.next_id
    /\ lock' = NoThread
    /\ pc' = [t \in Threads |-> "idle"]
    /\ local' = [t \in Threads |-> DefaultLocal]
    /\ req' = [h \in Handlers |-> DefaultReq]
    /\ task' = [w \in BackgroundTasks |-> DefaultTask]
    /\ returned' = [i \in DOMAIN returned |-> 0]
    /\ UNCHANGED <<diskVars, saved, served, fn>>

----------------------------------------------------------------------------
(* The store under concurrent callers of its methods *)

TopKs == {1, 2}
\* config.similarity_threshold, in tenths
similarity_threshold == 3

StoreStep(t) ==
    \/ SmAdd(t)
    \/ SmAppendMap(t)
    \/ SmSetMeta(t)
    \/ SrComputeK(t)
    \/ SrSearch(t)
    \/ SrUnlock(t)
    \/ SrLoop(t)
    \/ \E o \in WriteOutcomes : SvWriteIndex(t, o)
    \/ \E o \in WriteOutcomes : SvWriteMeta(t, o)

ApiCall(t) ==
    /\ pc[t] = "idle"
    /\ \/ \E msg \in Messages, dimOk \in BOOLEAN : StoreMessage(t, msg, dimOk, "idle", "idle")
       \/ \E q \in Queries, top_k \in TopKs :
               SearchRelevant(t, q, top_k, similarity_threshold, "idle")
       \/ Count(t, "idle")
       \/ Save(t, "idle", "idle")

Next ==
    \/ \E t \in Callers : ApiCall(t)
    \/ \E t \in Threads : StoreStep(t)

Spec == Init /\ [][Next]_vars

(* The store and its files over the lives of the process: the methods that
   write the store or the files, and the restart *)

PersistCall(t) ==
    /\ pc[t] = "idle"
    /\ \/ /\ next_id < MaxStored
          /\ \E msg \in Messages, dimOk \in BOOLEAN : StoreMessage(t, msg, dimOk, "idle", "idle")
       \/ Save(t, "idle", "idle")

PersistStep(t) ==
    \/ SmAdd(t)
    \/ SmAppendMap(t)
    \/ SmSetMeta(t)
    \/ \E o \in WriteOutcomes : SvWriteIndex(t, o)
    \/ \E o \in WriteOutcomes : SvWriteMeta(t, o)

NextPersist ==
    \/ \E t \in Callers : PersistCall(t)
    \/ \E t \in Threads : PersistStep(t)
    \/ Restart

SpecPersist == Init /\ [][NextPersist]_vars

----------------------------------------------------------------------------
(* context_injection.py *)

\* config.max_context_items, config.max_context_chars
max_context_items == 10
max_context_chars == 3000
ProxyConfig ==
    [max_context_items |-> max_context_items, max_context_chars |-> max_context_chars]

\* text[:n]; a word that is a single character is never split, and a longer
\* word that does not fit is left out whole
RECURSIVE Cut(_, _)
Cut(text, n) ==
    IF text = <<>> \/ n <= 0 THEN <<>>
    ELSE IF WordLen(Head(text)) <= n
         THEN <<Head(text)>> \o Cut(Tail(text), n - WordLen(Head(text)))
         ELSE <<>>

\* len() of the pieces of a line: the role, the age as _format_age gives it
\* for a record just stored ("just now"), and the similarity as a percentage
RoleLen(role) == CASE role = "user" -> 4 [] role = "assistant" -> 9 [] OTHER -> 7
AgeLen == 8
PctLen(sim) == IF sim >= 10 THEN 4 ELSE 3

\* len() of f"[{role}] ({age}, relevance: {sim:.0%}): {text}", where a cut
\* text ends in "..."
LineLen(line) ==
    1 + RoleLen(line.role) + 3 + AgeLen + 13 + PctLen(line.sim) + 3
    + TextLen(line.text) + (IF line.cut THEN 3 ELSE 0)

\* the loop of _format_memory_lines without its break: a result is formatted
\* whatever budget remains
RECURSIVE FormatLoopNoBreak(_, _, _, _)
FormatLoopNoBreak(results, config, lines, total_chars) ==
    IF results = <<>>
    THEN lines
    ELSE LET r == Head(results)
             text == r.metadata.text
             remaining_budget == config.max_context_chars - total_chars
             cut == TextLen(text) > remaining_budget
             line == [role |-> r.metadata.role,
                      text |-> IF cut THEN Cut(text, remaining_budget) ELSE text,
                      cut |-> cut, sim |-> r.similarity]
         IN FormatLoopNoBreak(Tail(results), config, Append(lines, line),
                              total_chars + LineLen(line))

\* the loop of _format_memory_lines, lines 60-77
RECURSIVE FormatLoop(_, _, _, _)
FormatLoop(results, config, lines, total_chars) ==
    IF results = <<>>
    THEN lines
    ELSE LET r == Head(results)
             text == r.metadata.text
             remaining_budget == config.max_context_chars - total_chars
             cut == TextLen(text) > remaining_budget
             line == [role |-> r.metadata.role,
                      text |-> IF cut THEN Cut(text, remaining_budget) ELSE text,
                      cut |-> cut, sim |-> r.similarity]
         IN IF remaining_budget <= 0
            THEN lines
            ELSE FormatLoop(Tail(results), config, Append(lines, line),
                            total_chars + LineLen(line))

\* _format_memory_lines: one line per result, for the first max_context_items
\* results, while the budget lasts
FormatMemoryLines(results, config) ==
    FormatLoop(SubSeq(results, 1, Min(Len(results), config.max_context_items)),
               config, <<>>, 0)

\* the base prompt is injected whatever the count of the store
BuildMemoryBlockAlways(results, config, total_memories) ==
    [kind |-> "block", section |-> "base", total |-> 0, lines |-> <<>>]

\* build_memory_block without lines 39-47: no results give the empty block
BuildMemoryBlockNoNotice(results, config, total_memories) ==
    IF results = <<>>
    THEN NoBlock
    ELSE LET lines == FormatMemoryLines(results, config)
         IN IF lines # <<>>
            THEN [kind |-> "block", section |-> "memory", total |-> total_memories,
                  lines |-> lines]
            ELSE [kind |-> "block", section |-> "base", total |-> 0, lines |-> <<>>]

\* build_memory_block: "" or the base prompt, followed by the memory section
\* when there are lines, or by the notice when there are no results
BuildMemoryBlock(results, config, total_memories) ==
    IF total_memories <= 0 /\ results = <<>>
    THEN NoBlock
    ELSE IF results # <<>>
         THEN LET lines == FormatMemoryLines(results, config)
              IN IF lines # <<>>
                 THEN [kind |-> "block", section |-> "memory", total |-> total_memories,
                       lines |-> lines]
                 ELSE [kind |-> "block", section |-> "base", total |-> 0, lines |-> <<>>]
         ELSE [kind |-> "block", section |-> "nomatch", total |-> total_memories,
               lines |-> <<>>]

RECURSIVE SumLineLen(_)
SumLineLen(lines) ==
    IF lines = <<>> THEN 0 ELSE LineLen(Head(lines)) + SumLineLen(Tail(lines))

\* len(str(n))
Digits(n) == IF n < 10 THEN 1 ELSE 2

\* len() of the block: MEMORY_BASE_PROMPT has 349 characters; the memory
\* section is its header, the lines joined by "\n", and its footer
BlockLen(block) ==
    IF block.kind = "empty" THEN 0
    ELSE 349 + CASE block.section = "memory" ->
                      38 + Digits(block.total) + SumLineLen(block.lines)
                      + (Len(block.lines) - 1) + 19
                 [] block.section = "nomatch" -> 258 + Digits(block.total)
                 [] OTHER -> 0

\* the block always goes into a new system message in front
InjectAlwaysPrepends(messages, context_block) ==
    IF context_block = NoBlock
    THEN messages
    ELSE <<[role |-> "system",
            content |-> [text |-> NoText, sep |-> FALSE, block |-> context_block]]>>
         \o messages

\* inject_context_into_messages
InjectContextIntoMessages(messages, context_block) ==
    IF context_block = NoBlock
    THEN messages
    ELSE IF messages # <<>> /\ messages[1].role = "system"
         THEN [messages EXCEPT ![1].content = [@ EXCEPT !.sep = TRUE, !.block = context_block]]
         ELSE <<[role |-> "system",
                 content |-> [text |-> NoText, sep |-> FALSE, block |-> context_block]]>>
              \o messages

\* The objects of inject_context_into_messages: dicts holds the message
\* objects by address, lists holds the list objects (a list is the sequence of
\* the addresses of its messages), and cur is the address of the list that the
\* name `messages` is bound to. The caller's list is list 1.
CallerHeap(messages) ==
    [dicts |-> messages, lists |-> <<[i \in 1..Len(messages) |-> i]>>, cur |-> 1]

\* the list a name is bound to, read through the addresses
Deref(heap, l) == [i \in 1..Len(heap.lists[l]) |-> heap.dicts[heap.lists[l][i]]]

\* no copy is made: `messages` stays bound to the caller's list
AliasMessages(heap) == heap

\* messages = [m.copy() for m in messages]: a new list of new message objects
CopyMessages(heap) ==
    LET src == heap.lists[heap.cur]
        n == Len(heap.dicts)
    IN [dicts |-> heap.dicts \o [i \in 1..Len(src) |-> heap.dicts[src[i]]],
        lists |-> Append(heap.lists, [i \in 1..Len(src) |-> n + i]),
        cur |-> Len(heap.lists) + 1]

\* inject_context_into_messages on the objects: the heap after the call; the
\* list returned is the one cur names
InjectInHeap(heap, context_block) ==
    IF context_block = NoBlock
    THEN heap
    ELSE LET h == CopyMessages(heap)
             l == h.lists[h.cur]
         IN IF l # <<>> /\ h.dicts[l[1]].role = "system"
            THEN [h EXCEPT !.dicts[l[1]].content =
                               [@ EXCEPT !.sep = TRUE, !.block = context_block]]
            ELSE [h EXCEPT !.dicts = Append(@, [role |-> "system",
                                                content |-> [text |-> NoText, sep |-> FALSE,
                                                             block |-> context_block]]),
                           !.lists[h.cur] = <<Len(h.dicts) + 1>> \o l]

\* inject_context_into_system
InjectContextIntoSystem(system_prompt, context_block) ==
    IF context_block = NoBlock
    THEN system_prompt
    ELSE IF system_prompt.text # NoText
         THEN [system_prompt EXCEPT !.sep = TRUE, !.block = context_block]
         ELSE [text |-> NoText, sep |-> FALSE, block |-> context_block]

----------------------------------------------------------------------------
(* proxy.py: helpers *)

\* config.search_top_k
search_top_k == 15

RECURSIVE Strip(_)
\* str.strip(): the blank words at both ends removed
Strip(text) ==
    IF text = <<>> THEN <<>>
    ELSE IF Head(text) = " " THEN Strip(Tail(text))
    ELSE IF text[Len(text)] = " " THEN Strip(SubSeq(text, 1, Len(text) - 1))
    ELSE text

\* " ".join of the text of the parts that have one
RECURSIVE JoinParts(_)
JoinParts(parts) ==
    IF parts = <<>> THEN NoText
    ELSE LET rest == [i \in 1..(Len(parts) - 1) |-> parts[i + 1]]
             more == \E i \in 1..Len(rest) : rest[i].kind = "text"
         IN IF Head(parts).kind = "text"
            THEN Head(parts).text \o (IF more THEN <<" ">> ELSE NoText) \o JoinParts(rest)
            ELSE JoinParts(rest)

\* the content of a message as a string: a list of parts (multimodal) is joined
ContentText(content) ==
    IF "parts" \in DOMAIN content THEN JoinParts(content.parts) ELSE content.text

RECURSIVE ExtractLastUserMessage(_)
\* _extract_last_user_message: the latest message of role user whose content
\* is not blank; None (NoText) when there is none
ExtractLastUserMessage(messages) ==
    IF messages = <<>>
    THEN NoText
    ELSE LET msg == messages[Len(messages)]
         IN IF msg.role = "user" /\ Strip(ContentText(msg.content)) # NoText
            THEN Strip(ContentText(msg.content))
            ELSE ExtractLastUserMessage(SubSeq(messages, 1, Len(messages) - 1))

\* str.lower(): "NO" stands for a phrase written in capitals
Lower(text) == [i \in 1..Len(text) |-> IF text[i] = "NO" THEN "no" ELSE text[i]]

\* _is_unhelpful: the word "no" stands for one of the phrases of
\* _UNHELPFUL_PHRASES, looked for in the text in lower case
IsUnhelpful(text) == \E i \in 1..Len(Lower(text)) : Lower(text)[i] = "no"

RECURSIVE Join(_)
\* "".join(collected_response)
Join(parts) == IF parts = <<>> THEN NoText ELSE Head(parts) \o Join(Tail(parts))

----------------------------------------------------------------------------
(* proxy.py: the handlers. A handler is a coroutine of the event loop: its
   step runs from one await to the next. The store methods it awaits run in
   worker threads (asyncio.to_thread) as the steps of the store above. *)

\* the background task slot the next asyncio.create_task uses
\* the content fragments of the lines the backend streamed, in its order
RECURSIVE Fragments(_)
Fragments(lines) ==
    IF lines = <<>> THEN <<>>
    ELSE (IF Head(lines).kind = "json" THEN <<Head(lines).content>> ELSE <<>>)
         \o Fragments(Tail(lines))

FreeWriter == CHOOSE w \in Writers : (\E v \in Writers : pc[v] = "idle") => pc[w] = "idle"

\* asyncio.create_task(_store_conversation(user_text, assistant_text, model_name)):
\* the task is runnable from now on; the handler goes on to hpc
CreateTask(h, w, user_text, assistant_text, relayed, hpc) ==
    /\ task' = [task EXCEPT ![w] =
                  [user_text |-> user_text,
                   assistant_text |-> assistant_text,
                   relayed |-> relayed,
                   streamed |-> (req[h].stream /\ req[h].endpoint = "chat"),
                   fragments |-> Join(Fragments(req[h].emitted))]]
    /\ pc' = [pc EXCEPT ![h] = hpc, ![w] = "w_ready"]

\* the handler's coroutine has ended
HDone(h) ==
    /\ pc[h] = "h_done"
    /\ req' = [req EXCEPT ![h] = DefaultReq]
    /\ pc' = [pc EXCEPT ![h] = "idle"]
    /\ UNCHANGED <<storeVars, diskVars, local, task, returned, saved, boots, fn, served>>

\* no line is skipped
SkipNoLine(line) == FALSE

\* lines 117-118 and 220-221: if not line.strip(): continue
SkipLine(line) == line.kind = "blank"

\* the body handed to the backend in place of the handler's body dict
ForwardedOriginal(orig, body) == orig

\* json=body in http_client.post / http_client.stream
ForwardedBody(orig, body) == body

\* the framework's answer to an exception that leaves a handler
ServerError ==
    [status |-> 500, ctype |-> "text/plain",
     body |-> <<[json |-> FALSE, text |-> <<"Internal Server Error">>]>>]

\* the bytes forwarded are the permissively decoded text
DecodedContent(raw_body) == "decoded"

\* lines 70 and 175, line 334: content=body, the bytes as received
PassthroughContent(raw_body) == raw_body

\* chat and generate up to their first await of a worker thread: the body is
\* parsed and the query text extracted; memory.count is read; the query is
\* embedded (embedOk: the embedder returned; its exception is caught at lines
\* 95 and 198 and results stays empty). A body that cannot be parsed goes to
\* _stream_passthrough as raw bytes; JSON that is no object has no get(), and
\* the AttributeError of lines 72 and 177 leaves the handler
Intercept(h, endpoint, request, user_text, stream, embedOk) ==
    /\ pc[h] = "idle"
    /\ served < MaxRequests
    /\ served' = served + 1
    /\ CASE request.parse = "unparseable" ->
              /\ req' = [req EXCEPT ![h] = [DefaultReq EXCEPT !.endpoint = endpoint,
                          !.method = "POST", !.stream = TRUE, !.raw = request.raw,
                          !.sent = [kind |-> "raw", body |-> EmptyBody,
                                    raw |-> PassthroughContent(request.raw)]]]
              /\ pc' = [pc EXCEPT ![h] = "pt_wait"]
         [] request.parse = "not_object" ->
              /\ req' = [req EXCEPT ![h] = [DefaultReq EXCEPT !.endpoint = endpoint,
                          !.method = "POST", !.raw = request.raw,
                          !.got = ServerError, !.relayed = TRUE, !.proxy_error = TRUE]]
              /\ pc' = [pc EXCEPT ![h] = "h_done"]
         [] request.parse = "object" ->
              /\ req' = [req EXCEPT ![h] = [DefaultReq EXCEPT !.endpoint = endpoint,
                          !.method = "POST", !.stream = stream,
                          !.orig = request.body, !.body = request.body,
                          !.user_text = user_text,
                          !.search_failed = (user_text # NoText /\ ntotal > 0 /\ ~embedOk)]]
              /\ pc' = [pc EXCEPT ![h] =
                          IF user_text # NoText /\ ntotal > 0 /\ embedOk
                          THEN "h_search" ELSE "h_build"]
    /\ UNCHANGED <<storeVars, diskVars, local, task, returned, saved, boots, fn>>

\* lines 57-81
Chat(h, request, stream, embedOk) ==
    Intercept(h, "chat", request, ExtractLastUserMessage(request.body.messages), stream, embedOk)

\* lines 163-184
Generate(h, request, stream, embedOk) ==
    Intercept(h, "generate", request, request.body.prompt, stream, embedOk)

\* lines 84-89 and 187-192: memory.search_relevant in a worker thread
HSearch(h) ==
    /\ pc[h] = "h_search"
    /\ SearchRelevant(h, Embed(req[h].user_text), search_top_k, similarity_threshold, "h_build")

\* lines 99-107 and 202-210, then the request to the backend (lines 115, 144,
\* 218, 247): the block is built from the results and a second read of
\* memory.count, injected when not empty, and the body is sent. A streamed
\* response to the caller starts here, with status 200
HBuild(h) ==
    /\ pc[h] = "h_build"
    /\ LET r == req[h]
           results == local[h].results
           total == ntotal
           block == BuildMemoryBlock(results, ProxyConfig, total)
           body == IF block = NoBlock THEN r.body
                   ELSE IF r.endpoint = "chat"
                        THEN [r.body EXCEPT !.messages = InjectContextIntoMessages(r.body.messages, block)]
                        ELSE [r.body EXCEPT !.system = InjectContextIntoSystem(r.body.system, block)]
       IN req' = [req EXCEPT ![h] = [r EXCEPT !.results = results, !.total = total,
                      !.block = block, !.body = body,
                      !.sent = [kind |-> "json", body |-> ForwardedBody(r.orig, body),
                                raw |-> NoRaw],
                      !.got = IF r.stream
                              THEN [status |-> 200, ctype |-> "application/x-ndjson", body |-> <<>>]
                              ELSE @]]
    /\ local' = [local EXCEPT ![h] = DefaultLocal]
    /\ pc' = [pc EXCEPT ![h] = IF req[h].stream THEN "h_stream" ELSE "h_wait"]
    /\ UNCHANGED <<storeVars, diskVars, task, returned, saved, boots, fn, served>>

\* _non_stream_chat and _non_stream_generate from the backend's answer to the
\* return statement (lines 144-152, 247-255): response.json() raises on a body
\* that is no JSON and the caller gets the framework's 500; else the text is
\* taken, asyncio.create_task makes the background write runnable, and the
\* Response object is returned to the server
HReply(h, reply) ==
    /\ pc[h] = "h_wait"
    /\ IF ~reply.body.json
       THEN /\ req' = [req EXCEPT ![h] = [AfterTask(@) EXCEPT !.reply = reply,
                          !.got = ServerError, !.relayed = TRUE, !.proxy_error = TRUE]]
            /\ pc' = [pc EXCEPT ![h] = "h_done"]
            /\ UNCHANGED task
       ELSE /\ pc[FreeWriter] = "idle"
            /\ req' = [req EXCEPT ![h] = [AfterTask(@) EXCEPT !.reply = reply,
                          !.assistant_text = reply.body.text, !.writer = FreeWriter]]
            /\ CreateTask(h, FreeWriter, req[h].user_text, reply.body.text, FALSE, "h_relay")
    /\ UNCHANGED <<storeVars, diskVars, local, returned, saved, boots, fn, served>>

\* the server sends the returned Response (lines 152-156, 255-259) to the caller
HRelay(h) ==
    /\ pc[h] = "h_relay"
    /\ req' = [req EXCEPT ![h].got = [status |-> req[h].reply.status,
                                      ctype |-> "application/json",
                                      body |-> <<req[h].reply.body>>],
                          ![h].relayed = TRUE]
    /\ task' = [task EXCEPT ![req[h].writer].relayed = TRUE]
    /\ pc' = [pc EXCEPT ![h] = "h_done"]
    /\ UNCHANGED <<storeVars, diskVars, local, returned, saved, boots, fn, served>>

\* one turn of the loop over the backend's lines (lines 116-127, 219-230): a
\* blank line is skipped; any other is sent to the caller with "\n" appended,
\* and its content, when it is JSON and has one, is collected
HStreamLine(h, line) ==
    /\ pc[h] = "h_stream"
    /\ Len(req[h].emitted) < MaxChunks
    /\ req' = [req EXCEPT ![h] =
                 IF SkipLine(line)
                 THEN [AfterSend(@) EXCEPT !.emitted = Append(@, line)]
                 ELSE [AfterSend(@) EXCEPT !.emitted = Append(@, line),
                          !.got.body = Append(@, [line |-> line, nl |-> TRUE]),
                          !.collected = IF line.kind = "json" /\ line.content # NoText
                                        THEN Append(@, line.content) ELSE @]]
    /\ UNCHANGED <<storeVars, diskVars, pc, local, task, returned, saved, boots, fn, served>>

\* the status of the backend's streamed response
StreamStatuses == {200, 500}

\* the backend's stream has ended and every line was sent on (lines 130-133,
\* 233-236): the collected text is joined and asyncio.create_task makes the
\* background write runnable. The status the backend answered with is never
\* read (lines 115-119, 218-222), so it is drawn here, where it is recorded
HStreamEnd(h, status) ==
    /\ pc[h] = "h_stream"
    /\ pc[FreeWriter] = "idle"
    /\ req' = [req EXCEPT ![h] = [AfterStream(@) EXCEPT
                          !.reply = [NoReply EXCEPT !.status = status],
                          !.assistant_text = Join(req[h].collected),
                          !.relayed = TRUE, !.writer = FreeWriter]]
    /\ CreateTask(h, FreeWriter, req[h].user_text, Join(req[h].collected), TRUE, "h_done")
    /\ UNCHANGED <<storeVars, diskVars, local, returned, saved, boots, fn, served>>

\* the body of a request to another path
OtherBodies == {"{}"}

\* proxy_passthrough, lines 303-321: any other path, any method; the request is
\* sent on to the backend
ProxyPassthrough(h, method, raw) ==
    /\ pc[h] = "idle"
    /\ served < MaxRequests
    /\ served' = served + 1
    /\ req' = [req EXCEPT ![h] = [DefaultReq EXCEPT !.endpoint = "other",
                  !.method = method, !.stream = (method = "POST"), !.raw = raw,
                  !.sent = [kind |-> "raw", body |-> EmptyBody,
                            raw |-> PassthroughContent(raw)]]]
    /\ pc' = [pc EXCEPT ![h] = "pt_wait"]
    /\ UNCHANGED <<storeVars, diskVars, local, task, returned, saved, boots, fn>>

\* _stream_passthrough followed by asyncio.create_task(_store_conversation(...))
\* on the bytes received and relayed
StreamPassthroughStores(h, reply) ==
    /\ pc[h] = "pt_wait"
    /\ req[h].stream
    /\ pc[FreeWriter] = "idle"
    /\ req' = [req EXCEPT ![h].reply = reply,
                          ![h].got = [status |-> 200, ctype |-> "application/x-ndjson",
                                      body |-> <<reply.body>>],
                          ![h].relayed = TRUE]
    /\ task' = [task EXCEPT ![FreeWriter] =
                  [DefaultTask EXCEPT !.user_text = <<"ta">>, !.relayed = TRUE]]
    /\ pc' = [pc EXCEPT ![h] = "h_done", ![FreeWriter] = "w_ready"]
    /\ UNCHANGED <<storeVars, diskVars, local, returned, saved, boots, fn, served>>

\* _stream_passthrough, lines 329-339: the backend's bytes under a
\* StreamingResponse of the default status and media type application/x-ndjson
StreamPassthrough(h, reply) ==
    /\ pc[h] = "pt_wait"
    /\ req[h].stream
    /\ req' = [req EXCEPT ![h].reply = reply,
                          ![h].got = [status |-> 200, ctype |-> "application/x-ndjson",
                                      body |-> <<reply.body>>],
                          ![h].relayed = TRUE]
    /\ pc' = [pc EXCEPT ![h] = "h_done"]
    /\ UNCHANGED <<storeVars, diskVars, local, task, returned, saved, boots, fn, served>>

\* proxy_passthrough, lines 322-326: the Response of a method other than POST
PassthroughResponse(h, reply) ==
    /\ pc[h] = "pt_wait"
    /\ ~req[h].stream
    /\ req' = [req EXCEPT ![h].reply = reply,
                          ![h].got = [status |-> reply.status,
                                      ctype |-> IF reply.ctype = "none"
                                                THEN "application/json" ELSE reply.ctype,
                                      body |-> <<reply.body>>],
                          ![h].relayed = TRUE]
    /\ pc' = [pc EXCEPT ![h] = "h_done"]
    /\ UNCHANGED <<storeVars, diskVars, local, task, returned, saved, boots, fn, served>>

----------------------------------------------------------------------------
(* proxy.py: _store_conversation, the background task *)

\* line 267: the user text is stored when it is longer than 5 characters
UserStorable(text) == text # NoText /\ TextLen(text) > 5

\* an assistant text is stored whatever phrase it holds
AssistantStorableRefusals(text) == text # NoText /\ TextLen(text) > 20

\* line 273: the assistant text is stored when it is longer than 20 characters
\* and is no refusal
AssistantStorable(text) == text # NoText /\ TextLen(text) > 20 /\ ~IsUnhelpful(text)

\* the task starts to run: lines 266-268, up to the embedding of the user text
\* (embedOk: the embedder returned; its exception goes to line 291)
WStart(w, embedOk) ==
    /\ pc[w] = "w_ready"
    /\ pc' = [pc EXCEPT ![w] =
                IF UserStorable(task[w].user_text)
                THEN IF embedOk THEN "w_user" ELSE "w_except"
                ELSE "w_asst"]
    /\ UNCHANGED <<storeVars, diskVars, local, req, task, returned, saved, boots, fn, served>>

\* the task has returned
WDone(w) ==
    /\ pc[w] = "w_done"
    /\ task' = [task EXCEPT ![w] = DefaultTask]
    /\ pc' = [pc EXCEPT ![w] = "idle"]
    /\ UNCHANGED <<storeVars, diskVars, local, req, returned, saved, boots, fn, served>>

\* lines 291-292: an exception of any step of the task is logged, and the task
\* returns
WExcept(w) ==
    /\ pc[w] = "w_except"
    /\ task' = [task EXCEPT ![w] = DefaultTask]
    /\ pc' = [pc EXCEPT ![w] = "idle"]
    /\ UNCHANGED <<storeVars, diskVars, local, req, returned, saved, boots, fn, served>>

\* the task goes past lines 267-271 without the insert
WStoreUserSkipped(w, dimOk) ==
    /\ pc[w] = "w_user"
    /\ pc' = [pc EXCEPT ![w] = "w_asst"]
    /\ UNCHANGED <<storeVars, diskVars, local, req, task, returned, saved, boots, fn, served>>

\* lines 269-271: memory.store_message for the user text, in a worker thread
\* (dimOk: the embedding has the dimension of the index)
WStoreUser(w, dimOk) ==
    /\ pc[w] = "w_user"
    /\ next_id < MaxStored
    /\ StoreMessage(w, [text |-> task[w].user_text, role |-> "user"],
                    dimOk, "w_asst", "w_except")

\* lines 273-284: the assistant text is embedded and stored when it qualifies;
\* when it does not, the task goes on to memory.save
WAssistant(w, embedOk, dimOk) ==
    /\ pc[w] = "w_asst"
    /\ LET text == task[w].assistant_text
       IN IF AssistantStorable(text)
          THEN IF embedOk
               THEN /\ next_id < MaxStored
                    /\ StoreMessage(w, [text |-> text, role |-> "assistant"],
                                    dimOk, "w_save", "w_except")
               ELSE /\ pc' = [pc EXCEPT ![w] = "w_except"]
                    /\ UNCHANGED <<storeVars, diskVars, local, req, task, returned, saved, boots, fn, served>>
          ELSE Save(w, "w_done", "w_except")

\* the task returns after its inserts without line 284
WSaveSkipped(w) ==
    /\ pc[w] = "w_save"
    /\ pc' = [pc EXCEPT ![w] = "w_done"]
    /\ UNCHANGED <<storeVars, diskVars, local, req, task, returned, saved, boots, fn, served>>

\* line 284: memory.save in a worker thread; its exception is caught at line 291
WSave(w) ==
    /\ pc[w] = "w_save"
    /\ Save(w, "w_done", "w_except")

----------------------------------------------------------------------------
(* The proxy: requests served concurrently over one store *)

Methods == {"GET", "POST", "DELETE"}

HandlerStep(h) ==
    \/ \E request \in ChatRequests, stream, embedOk \in BOOLEAN :
           Chat(h, request, stream, embedOk)
    \/ \E request \in GenerateRequests, stream, embedOk \in BOOLEAN :
           Generate(h, request, stream, embedOk)
    \/ \E method \in Methods, raw \in OtherBodies : ProxyPassthrough(h, method, raw)
    \/ HSearch(h)
    \/ HBuild(h)
    \/ \E reply \in MemoryReplies : HReply(h, reply)
    \/ HRelay(h)
    \/ \E line \in StreamLines : HStreamLine(h, line)
    \/ \E status \in StreamStatuses : HStreamEnd(h, status)
    \/ \E reply \in OtherReplies : StreamPassthrough(h, reply)
    \/ \E reply \in OtherReplies : PassthroughResponse(h, reply)
    \/ HDone(h)

WriterStep(w) ==
    \/ \E embedOk \in BOOLEAN : WStart(w, embedOk)
    \/ \E dimOk \in BOOLEAN : WStoreUser(w, dimOk)
    \/ \E embedOk, dimOk \in BOOLEAN : WAssistant(w, embedOk, dimOk)
    \/ WSave(w)
    \/ WDone(w)
    \/ WExcept(w)

\* the steps of the store methods the proxy calls; a save of the proxy fails,
\* when it does, at its first write and before it touches the file
ProxyWriteOutcomes == {"ok", "fail_untouched"}

ProxyStoreStep(t) ==
    \/ SmAdd(t)
    \/ SmAppendMap(t)
    \/ SmSetMeta(t)
    \/ SrComputeK(t)
    \/ SrSearch(t)
    \/ SrUnlock(t)
    \/ SrLoop(t)
    \/ \E o \in ProxyWriteOutcomes : SvWriteIndex(t, o)
    \/ SvWriteMeta(t, "ok")

NextProxy ==
    \/ \E h \in Handlers : HandlerStep(h)
    \/ \E w \in Writers : WriterStep(w)
    \/ \E t \in Handlers \cup Writers : ProxyStoreStep(t)

SpecProxy == Init /\ [][NextProxy]_vars

(* The proxy without failures and under fair scheduling: every body is a JSON
   object, the embedder and the index accept every text, the backend answers
   with JSON, the file writes complete. The event loop runs every task that is
   runnable and the operating system runs every worker thread, so a step of a
   background write or of a store method that stays enabled is taken. *)

LiveReplies == {reply \in MemoryReplies : reply.body.json}

LiveHandlerStep(h) ==
    \/ \E request \in ParsedBodies(ChatBodies), stream \in BOOLEAN :
           Chat(h, request, stream, TRUE)
    \/ \E request \in ParsedBodies(GenerateBodies), stream \in BOOLEAN :
           Generate(h, request, stream, TRUE)
    \/ HSearch(h)
    \/ HBuild(h)
    \/ \E reply \in LiveReplies : HReply(h, reply)
    \/ HRelay(h)
    \/ \E line \in StreamLines : HStreamLine(h, line)
    \/ HStreamEnd(h, 200)
    \/ HDone(h)

LiveWriterStep(w) ==
    \/ WStart(w, TRUE)
    \/ WStoreUser(w, TRUE)
    \/ WAssistant(w, TRUE, TRUE)
    \/ WSave(w)
    \/ WDone(w)

LiveStoreStep(t) ==
    \/ SmAdd(t)
    \/ SmAppendMap(t)
    \/ SmSetMeta(t)
    \/ SrComputeK(t)
    \/ SrSearch(t)
    \/ SrUnlock(t)
    \/ SrLoop(t)
    \/ SvWriteIndex(t, "ok")
    \/ SvWriteMeta(t, "ok")

NextLive ==
    \/ \E h \in Handlers : LiveHandlerStep(h)
    \/ \E w \in Writers : LiveWriterStep(w)
    \/ \E t \in Handlers \cup Writers : LiveStoreStep(t)

Fairness ==
    /\ \A w \in Writers : WF_vars(LiveWriterStep(w) \/ LiveStoreStep(w))
    /\ \A h \in Handlers : WF_vars(LiveStoreStep(h))

SpecProxyLive == Init /\ [][NextLive]_vars /\ Fairness

----------------------------------------------------------------------------
(* Properties of the store *)

\* a store_message call is inside its critical section
Inserting(t) == pc[t] \in {"sm_add", "sm_map", "sm_meta"}
Saving(t) == pc[t] \in {"sv_index", "sv_meta"}
HoldsLock(t) == Inserting(t) \/ Saving(t) \/ pc[t] = "sr_unlock"
NoInsertRunning == \A t \in Threads : ~Inserting(t)

\* a vector is in the index whose id-map entry or metadata entry is missing
Partial == ~(ntotal = Len(id_map) /\ Len(id_map) = Cardinality(DOMAIN metadata))

\* C1: whenever every store_message call so far has completed (returned or
\* raised), the number of vectors, the length of the id map and the number of
\* metadata entries are equal
C1_CountsAgree == NoInsertRunning => ~Partial

\* two inserts completed, from two callers or one
C1_Witness ==
    /\ NoInsertRunning
    /\ ntotal = 2
    /\ returned[0] = 1 /\ returned[1] = 1

\* C2, as claimed: no step of a reader (count, or a step of search_relevant:
\* its emptiness check, its computation of k, its index search, a turn of
\* its result loop) is taken in a state where a vector is in the index
\* while its id-map entry or its metadata entry is missing
ReaderStep(t) ==
    \/ pc[t] = "idle" /\ local'[t].op \in {"count", "search_relevant"} /\ local'[t] # local[t]
    \/ pc[t] \in {"sr_k", "sr_search", "sr_loop"} /\ local'[t] # local[t]

ReturnedIds == {i \in DOMAIN returned : returned[i] > 0}

C3_IdsConsecutive ==
    /\ \A i \in DOMAIN returned : returned[i] <= 1
    /\ \A i \in ReturnedIds : i < next_id
    /\ NoInsertRunning =>
          \A i, j \in ReturnedIds : \A m \in DOMAIN returned :
              (i < m /\ m < j) => m \in ReturnedIds

\* C6: at most one thread is inside a critical section of store_message or
\* save (or holds the lock for the index search); while a save runs the store
\* has no partly applied insert; and a metadata file that a save wrote holds
\* as many id-map entries as metadata entries, all with ids below its next_id
C6_WritesExclusive ==
    /\ \A t, u \in Threads : (t # u /\ HoldsLock(t)) => ~HoldsLock(u)
    /\ \A t \in Threads : HoldsLock(t) => lock = t
    /\ \A t \in Threads : Saving(t) => ~Partial
    /\ meta_file.kind = "pickle" =>
          /\ Len(meta_file.id_map) = Cardinality(DOMAIN meta_file.metadata)
          /\ \A i \in DOMAIN meta_file.metadata : i < meta_file.next_id

\* a save is between its two writes, with a record in the store, and the
\* metadata file on disk is an older one
C6_Witness ==
    \E t \in Threads :
        /\ pc[t] = "sv_meta"
        /\ ntotal >= 1
        /\ meta_file.kind = "pickle" /\ Len(meta_file.id_map) < ntotal

\* the two files describe the same store: none was ever written, or the
\* index file holds the vectors of the records of the metadata file, in order
FilesAgree ==
    \/ faiss_file.kind = "absent" /\ meta_file.kind = "absent"
    \/ /\ faiss_file.kind = "index" /\ meta_file.kind = "pickle"
       /\ Len(faiss_file.vectors) = Len(meta_file.id_map)
       /\ \A i \in 1..Len(meta_file.id_map) :
             /\ meta_file.id_map[i] \in DOMAIN meta_file.metadata
             /\ faiss_file.vectors[i] = Embed(meta_file.metadata[meta_file.id_map[i]].text)

\* C7, as claimed: whenever no save is running (each save attempt so far has
\* returned or raised), the two files describe the same store
C7_SaveAllOrNothing == (\A t \in Threads : ~Saving(t)) => FilesAgree

\* C8: a start that finds either file missing, or that fails to load either
\* one, leaves the store empty: no vectors, no id map, no metadata, next_id 0
C8_BadFilesStartEmpty ==
    [][(boots' # boots /\ (faiss_file.kind # "index" \/ meta_file.kind # "pickle"))
          => (index' = <<>> /\ id_map' = <<>> /\ metadata' = EmptyMeta /\ next_id' = 0)]_vars

\* the process was started on a good index file of two vectors and a damaged
\* metadata file, and holds an empty store
C8_Witness ==
    /\ boots = 1
    /\ faiss_file.kind = "index" /\ Len(faiss_file.vectors) = 2
    /\ meta_file.kind = "corrupt"
    /\ index = <<>> /\ id_map = <<>> /\ metadata = EmptyMeta /\ next_id = 0
    /\ \A t \in Threads : pc[t] = "idle"

\* C9: a start on the two files of a complete save gives the store that save
\* found: the same vectors, id map, metadata and next_id, and next_id is above
\* every stored id
C9_RestoreAfterSave ==
    [][(boots' # boots /\ saved.valid)
          => /\ index' = saved.store.index
             /\ id_map' = saved.store.id_map
             /\ metadata' = saved.store.metadata
             /\ next_id' = saved.store.next_id
             /\ \A i \in DOMAIN metadata' : i < next_id']_vars

\* the process was started on the files of a save of two records and holds
\* them, with next_id 2
C9_Witness ==
    /\ boots = 1
    /\ saved.valid /\ Len(saved.store.index) = 2
    /\ index = saved.store.index /\ id_map = <<0, 1>> /\ next_id = 2
    /\ DOMAIN metadata = {0, 1} /\ metadata[0].text # metadata[1].text
    /\ \A i \in DOMAIN returned : returned[i] = 0

----------------------------------------------------------------------------
(* Properties of the proxy *)

\* the background task has run its first statement
Started(w) == pc[w] \notin {"idle", "w_ready"}

\* C4, as claimed: a background task has started to run only if the response
\* of the request that created it has been relayed to the caller in full
C4_WriteAfterRelay == \A w \in Writers : Started(w) => task[w].relayed

Searching(h) == pc[h] \in {"h_search", "sr_k", "sr_search", "sr_unlock", "sr_loop"}

\* the body a memory request has after injection: the block built from the
\* results of the search and the count, joined to the messages or the system
\* prompt as received; the body as received when the block is empty
Injected(r) ==
    IF r.endpoint = "chat"
    THEN [r.orig EXCEPT !.messages = InjectContextIntoMessages(r.orig.messages,
                                         BuildMemoryBlock(r.results, ProxyConfig, r.total))]
    ELSE [r.orig EXCEPT !.system = InjectContextIntoSystem(r.orig.system,
                                         BuildMemoryBlock(r.results, ProxyConfig, r.total))]

\* C5: when the backend has been sent the body of a parsed chat or generate
\* request, the search of that request is over, the handler's body is the body
\* after injection of the block built from the search's results, and that
\* body is what the backend was sent
C5_SearchInjectForward ==
    \A h \in Handlers :
        req[h].sent.kind = "json" =>
            /\ ~Searching(h)
            /\ local[h].results = <<>>
            /\ req[h].block = BuildMemoryBlock(req[h].results, ProxyConfig, req[h].total)
            /\ req[h].body = Injected(req[h])
            /\ req[h].sent.body = req[h].body

\* the backend was sent a body that carries a block with a memory found by
\* the search, and the body differs from the one received
C5_Witness ==
    \E h \in Handlers :
        /\ req[h].sent.kind = "json"
        /\ req[h].results # <<>>
        /\ req[h].block.section = "memory" /\ req[h].block.lines # <<>>
        /\ req[h].sent.body # req[h].orig

\* C10, as claimed: the response the caller got for a request to any other
\* path has the backend's status, body and content type
C10_PassthroughVerbatim ==
    \A h \in Handlers :
        (req[h].endpoint = "other" /\ req[h].relayed) =>
            /\ req[h].got.status = req[h].reply.status
            /\ req[h].got.body = <<req[h].reply.body>>
            /\ req[h].got.ctype = req[h].reply.ctype

\* the lines the caller got, as the backend's lines they are
GotLines(r) == [i \in 1..Len(r.got.body) |-> r.got.body[i].line]

\* the backend's stream of a chat or generate request is being relayed
Streaming(h) ==
    /\ req[h].endpoint \in {"chat", "generate"}
    /\ req[h].stream
    /\ pc[h] = "h_stream"

NotBlank(line) == line.kind # "blank"

HasRecord(text, role) ==
    \E id \in DOMAIN metadata : metadata[id].text = text /\ metadata[id].role = role

\* C12: when a streamed chat response with some content was relayed to its
\* end and its background write has reached the save (no step of it has
\* raised), the store holds an assistant record whose text is the
\* concatenation, in order, of the content fragments of the stream
C12_StreamedTextStored ==
    \A w \in Writers :
        (task[w].streamed /\ task[w].fragments # NoText /\ Saving(w))
        => HasRecord(task[w].fragments, "assistant")

\* C13: when the embedding or the search of a request failed on a store that is
\* not empty, the body sent to the backend is the caller's: nothing is injected
C13_FailedSearchInjectsNothing ==
    \A h \in Handlers :
        (req[h].search_failed /\ req[h].sent.kind = "json")
        => req[h].sent.body = req[h].orig

MemoryEndpoint(h) == req[h].endpoint \in {"chat", "generate"}

\* C14: a chat or generate request, whatever its body, has been forwarded to
\* the backend when its handler ends, and its response is no error of the
\* proxy's own
C14_AlwaysForwarded ==
    \A h \in Handlers :
        (MemoryEndpoint(h) /\ pc[h] = "h_done")
        => (req[h].sent.kind # "none" /\ ~req[h].proxy_error)

\* C15: when the backend answers a chat or generate request with an error
\* status, the caller gets the backend's status, and the backend's body
C15_BackendErrorRelayed ==
    \A h \in Handlers :
        (/\ MemoryEndpoint(h) /\ pc[h] = "h_done"
         /\ req[h].sent.kind = "answered"
         /\ req[h].reply.status >= 400)
        => /\ req[h].got.status = req[h].reply.status
           /\ ~req[h].stream => req[h].got.body = <<req[h].reply.body>>

\* a chat or generate request whose body could not be parsed
Unparsed(h) == MemoryEndpoint(h) /\ req[h].sent.kind = "raw"

\* C16: when the body of a chat or generate request cannot be parsed, the bytes
\* sent to the backend are the bytes received, and the handler neither
\* searches the store nor builds or injects a block
C16_RawForwardedUnchanged ==
    \A h \in Handlers :
        Unparsed(h)
        => /\ req[h].sent.raw = req[h].raw
           /\ pc[h] \in {"pt_wait", "h_done"}
           /\ local[h] = DefaultLocal
           /\ req[h].block = NoBlock /\ req[h].results = <<>>
           /\ ~req[h].search_failed

\* unparseable bytes were sent on while the store holds a record, and the
\* backend has answered
C16_Witness ==
    \E h \in Handlers :
        /\ Unparsed(h) /\ pc[h] = "h_done"
        /\ req[h].raw \in RawBodies
        /\ ntotal > 0

\* a step in which a step of the background write w raises, or in which its
\* exception is logged
WriteFails(w) ==
    \/ pc[w] # "w_except" /\ pc'[w] = "w_except"
    \/ pc[w] = "w_except" /\ pc'[w] # "w_except"

BackendIO(t) == pc[t] \in {"h_wait", "h_stream", "pt_wait"}

\* the task's next step computes an embedding (of the query text, of the user
\* text, of the assistant text)
Embeds(t) == pc[t] \in {"idle", "w_ready", "w_asst"}

\* C18: no task holds the store lock while it computes an embedding or while
\* its request to the backend is in flight: the lock is held inside the store's
\* own methods only
C18_NoLockAcrossIO ==
    \A t \in Handlers \cup Writers :
        /\ (BackendIO(t) \/ Embeds(t)) => lock # t
        /\ lock = t => HoldsLock(t)

\* a request that searched the store is waiting for the backend while the
\* background write of an earlier request is inside an insert
C18_Witness ==
    \E h \in Handlers, w \in Writers :
        /\ BackendIO(h)
        /\ req[h].results # <<>>
        /\ lock = w /\ Inserting(w)

\* the background write w has gone past its user step without an exception
PastUserStep(w) == pc[w] \in {"w_asst", "w_save", "w_done"} \/ Saving(w)

\* C19: once the background write of a request that carried a user text has
\* gone past its first step, the store holds a user record of that text
C19_UserTextStored ==
    \A w \in Writers :
        (PastUserStep(w) /\ task[w].user_text # NoText)
        => HasRecord(task[w].user_text, "user")

\* a text holds a refusal phrase, in whatever case
Refusal(text) == \E i \in 1..Len(text) : text[i] \in {"no", "NO"}

\* a text that is not empty, is longer than the minimal length of 20
\* characters and holds no refusal phrase
Passes(text) == text # NoText /\ TextLen(text) > 20 /\ ~Refusal(text)

\* C20: every assistant record the background write inserts, and every one in
\* the store, has a text that passes the three tests; and a background write
\* that has gone past its assistant step without an exception with a text that
\* passes them has inserted it with role assistant
C20_AssistantFilter ==
    /\ \A w \in Writers :
          (Inserting(w) /\ local[w].msg.role = "assistant") => Passes(local[w].msg.text)
    /\ \A id \in DOMAIN metadata :
          metadata[id].role = "assistant" => Passes(metadata[id].text)
    /\ \A w \in Writers :
          ((pc[w] = "w_save" \/ Saving(w)) /\ Passes(task[w].assistant_text))
          => HasRecord(task[w].assistant_text, "assistant")

\* the store holds the assistant record of an earlier request, and the
\* background write of a request answered with a refusal has reached the save
\* without inserting it
C20_Witness ==
    \E w \in Writers :
        /\ Saving(w)
        /\ Refusal(task[w].assistant_text)
        /\ ~HasRecord(task[w].assistant_text, "assistant")
        /\ \E id \in DOMAIN metadata : metadata[id].role = "assistant"

\* the two files hold a record of this text and role: its vector in the index
\* file, its id and its metadata in the metadata file
FileHasRecord(text, role) ==
    /\ faiss_file.kind = "index" /\ meta_file.kind = "pickle"
    /\ \E i \in 1..Len(meta_file.id_map) :
        /\ i <= Len(faiss_file.vectors) /\ faiss_file.vectors[i] = Embed(text)
        /\ meta_file.id_map[i] \in DOMAIN meta_file.metadata
        /\ meta_file.metadata[meta_file.id_map[i]].text = text
        /\ meta_file.metadata[meta_file.id_map[i]].role = role

\* C21: when a background write has run to its end without an exception, the
\* files are the snapshot of the store as it is after the write's inserts:
\* they hold the records this write inserted and every record stored before
C21_WriteEndsSaved ==
    \A w \in Writers :
        pc[w] = "w_done" =>
            /\ faiss_file = IndexFileOf(index)
            /\ meta_file = MetaFileOf(metadata, id_map, next_id)
            /\ UserStorable(task[w].user_text) => FileHasRecord(task[w].user_text, "user")
            /\ AssistantStorable(task[w].assistant_text) =>
                   FileHasRecord(task[w].assistant_text, "assistant")

\* a write that inserted a user text and an assistant text has ended, and the
\* files hold both records
C21_Witness ==
    \E w \in Writers :
        /\ pc[w] = "w_done"
        /\ UserStorable(task[w].user_text) /\ AssistantStorable(task[w].assistant_text)
        /\ Len(faiss_file.vectors) = 2
        /\ FileHasRecord(task[w].assistant_text, "assistant")

\* the index search of search_relevant is under way for this thread
InIndexSearch(t) == pc[t] \in {"sr_k", "sr_search", "sr_unlock", "sr_loop"}

\* C25: while the store holds no record, a chat request has not entered the
\* index search, it holds no block, and the body the backend was sent for it
\* is the body received
C25_EmptyStoreForwardsAsReceived ==
    \A h \in Handlers :
        (req[h].endpoint = "chat" /\ ntotal = 0) =>
            /\ ~InIndexSearch(h)
            /\ req[h].block = NoBlock
            /\ req[h].sent.kind = "json" => req[h].sent.body = req[h].orig

\* a chat request that carries a user text was forwarded on an empty store
C25_Witness ==
    \E h \in Handlers :
        /\ req[h].endpoint = "chat" /\ ntotal = 0
        /\ ExtractLastUserMessage(req[h].orig.messages) # NoText
        /\ req[h].sent.kind = "json" /\ req[h].sent.body = req[h].orig

\* the background write of an exchange with this user text / this assistant
\* text has been created and has not ended
WritePending(w) == pc[w] # "idle"
PendingUser(text) == \E w \in Writers : WritePending(w) /\ task[w].user_text = text
PendingAssistant(text) == \E w \in Writers : WritePending(w) /\ task[w].assistant_text = text

\* the response of an exchange is relayed in full only once its background
\* write has been created
RelayedHasWrite == \A h \in Handlers : req[h].relayed => req[h].writer # NoThread

\* the store has reached the number of records the model lets it hold
StoreFull == next_id >= MaxStored

\* the texts of the exchanges that pass the length and refusal tests
LiveUserTexts == {<<"ta">>}
LiveAssistantTexts == {<<"he", "he">>}

\* every record inserted has its vector in the index at the position of its id
RecordsIndexed ==
    \A id \in DOMAIN metadata :
        \E i \in 1..Len(id_map) :
            /\ id_map[i] = id /\ i <= Len(index)
            /\ index[i] = Embed(metadata[id].text)

\* the index search of t ranks every position of the index as it is now: a
\* position that is not among the k found scores no higher than those found
SearchesWholeIndex(t) ==
    /\ Len(local'[t].found) = local[t].k
    /\ \A p \in 1..Len(index) :
        \/ \E j \in 1..Len(local'[t].found) : local'[t].found[j].idx = p
        \/ \A j \in 1..Len(local'[t].found) :
               local'[t].found[j].score >= Sim(local[t].q, index[p])

\* C28: without failures and under fair scheduling, the background write of
\* an exchange exists by the time its response is relayed in full; a write
\* whose user text passes the test of line 267 leads to a user record of that
\* text in the store, and likewise its assistant text (unless the store has
\* reached the bound of the model); a record stays as it is and the index never
\* loses a vector, so that an index search, which runs under the lock, ranks
\* every record whose insert has returned
C28_EventuallyStoredAndVisible ==
    /\ []RelayedHasWrite
    /\ \A text \in LiveUserTexts :
           (PendingUser(text) /\ UserStorable(text)) ~> (HasRecord(text, "user") \/ StoreFull)
    /\ \A text \in LiveAssistantTexts :
           (PendingAssistant(text) /\ AssistantStorable(text))
               ~> (HasRecord(text, "assistant") \/ StoreFull)
    /\ [][/\ SubSeq(index', 1, Len(index)) = index
          /\ \A id \in DOMAIN metadata :
                id \in DOMAIN metadata' /\ metadata'[id] = metadata[id]
          /\ \A t \in Handlers :
                (pc[t] = "sr_search" /\ pc'[t] = "sr_unlock") =>
                    RecordsIndexed /\ SearchesWholeIndex(t)]_vars

\* the search of a second request has found the user record that the write of
\* the first, relayed, exchange inserted
C28_Witness ==
    \E h \in Handlers :
        /\ pc[h] = "sr_unlock" /\ served = 2
        /\ HasRecord(<<"ta">>, "user")
        /\ \E j \in 1..Len(local[h].found) :
               /\ local[h].found[j].score = 10
               /\ metadata[id_map[local[h].found[j].idx]].role = "user"

\* the block is part of the body: of the first message, which is a system
\* message, of a chat body, or of the system prompt of a generate body
CarriesBlock(endpoint, body, block) ==
    IF endpoint = "chat"
    THEN /\ body.messages # <<>>
         /\ body.messages[1].role = "system"
         /\ body.messages[1].content.block = block
    ELSE body.system.block = block

\* C31: for a request whose body was sent to the backend, the block built is
\* empty exactly when the count read was zero and the search gave no hit; when
\* the count was positive and there was no hit, the block is the notice that
\* memory exists and nothing matched, it has characters, and the body sent
\* carries it
C31_NoticeWhenNothingMatched ==
    \A h \in Handlers :
        req[h].sent.kind = "json" =>
            /\ req[h].block = NoBlock <=> (req[h].total <= 0 /\ req[h].results = <<>>)
            /\ (req[h].total > 0 /\ req[h].results = <<>>) =>
                   /\ req[h].block.kind = "block" /\ req[h].block.section = "nomatch"
                   /\ req[h].block.total = req[h].total
                   /\ BlockLen(req[h].block) > 0
                   /\ CarriesBlock(req[h].endpoint, req[h].sent.body, req[h].block)

\* a chat request was sent with the notice, on a store of one record that did
\* not match
C31_Witness ==
    \E h \in Handlers :
        /\ req[h].sent.kind = "json" /\ req[h].endpoint = "chat"
        /\ req[h].total > 0 /\ req[h].results = <<>>
        /\ req[h].block.section = "nomatch"
        /\ req[h].sent.body # req[h].orig

----------------------------------------------------------------------------
(* The pure functions of context_injection.py and proxy.py, applied to
   arguments drawn from bounded sets: a state holds one call, first with its
   arguments and then with its result. *)

MaxHits == 2

\* a text of n characters
Letters == <<"a", "b", "c", "d", "e", "f", "g", "h", "i", "j">>
CharText(n) == SubSeq(Letters, 1, n)

\* a result of search_relevant: a record stored just now, with its similarity
Hit(n, role, sim) ==
    [ctx_id |-> 0, similarity |-> sim, metadata |-> [text |-> CharText(n), role |-> role]]
HitSet == {Hit(2, "user", 10), Hit(10, "assistant", 5)}

RECURSIVE SeqsUpTo(_, _)
SeqsUpTo(S, n) ==
    IF n = 0 THEN {<<>>}
    ELSE LET shorter == SeqsUpTo(S, n - 1)
         IN shorter \cup {Append(q, x) : q \in shorter, x \in S}

HitLists == SeqsUpTo(HitSet, MaxHits)

\* configurations: no budget, a budget below one text, a budget that the first
\* line fills exactly, one that it nearly fills, and the default
ConfigChars == {0, 5, 38, 40, max_context_chars}
Configs == {[ProxyConfig EXCEPT !.max_context_chars = c] : c \in ConfigChars}

FormatCalls ==
    {[op |-> "format", results |-> r, config |-> c, total |-> t, done |-> FALSE,
      lines |-> <<>>, block |-> NoBlock] :
        r \in HitLists, c \in Configs, t \in {0, 2}}

\* build_memory_block(results, config, total_memories), and the lines that
\* _format_memory_lines gives for the same results
ApplyFormat ==
    /\ fn.op = "format" /\ ~fn.done
    /\ fn' = [fn EXCEPT !.done = TRUE,
                        !.lines = FormatMemoryLines(fn.results, fn.config),
                        !.block = BuildMemoryBlock(fn.results, fn.config, fn.total)]
    /\ UNCHANGED <<storeVars, diskVars, pc, local, req, task, returned, saved, boots, served>>

Formatted == fn.op = "format" /\ fn.done

\* C24, as claimed: the block built from any hit list under any configuration
\* has at most max_context_chars characters
C24_BlockWithinBudget == Formatted => BlockLen(fn.block) <= fn.config.max_context_chars

\* the budget that remains before line i: max_context_chars less the lengths of
\* the lines before it
RemainingBefore(i) ==
    fn.config.max_context_chars - SumLineLen(SubSeq(fn.lines, 1, i - 1))

\* C30: line i formats hit i and is added only while budget remains; a hit
\* whose text is longer than the remaining budget gives a line whose text is
\* the first remaining-budget characters of it followed by an ellipsis, and
\* that line is the last one; a hit that fits is given whole
C30_BudgetStopsLines ==
    Formatted =>
        /\ Len(fn.lines) <= Len(fn.results)
        /\ \A i \in 1..Len(fn.lines) :
            LET text == fn.results[i].metadata.text
                remaining == RemainingBefore(i)
            IN /\ remaining > 0
               /\ IF Len(text) > remaining
                  THEN /\ fn.lines[i].text = SubSeq(text, 1, remaining)
                       /\ fn.lines[i].cut
                       /\ i = Len(fn.lines)
                  ELSE fn.lines[i].text = text /\ ~fn.lines[i].cut

\* a first hit was cut to the budget and the second hit got no line
C30_Witness ==
    /\ Formatted
    /\ Len(fn.results) = 2 /\ Len(fn.lines) = 1
    /\ fn.lines[1].cut /\ Len(fn.lines[1].text) = 5

MaxMessages == 2

\* a message whose content is a list of parts (multimodal)
PartsMsg(role, parts) == [role |-> role, content |-> [parts |-> parts]]
TextPart(text) == [kind |-> "text", text |-> text]
ImagePart == [kind |-> "image", text |-> NoText]

CallMessages ==
    {UserMsg(<<"ta">>), UserMsg(<<" ">>), SystemMsg(<<"sys">>),
     [role |-> "assistant", content |-> Plain(<<"tb">>)],
     PartsMsg("user", <<TextPart(<<"hi">>), ImagePart, TextPart(<<"ta">>)>>),
     PartsMsg("user", <<ImagePart>>)}
MessageLists == SeqsUpTo(CallMessages, MaxMessages)

ExtractCalls ==
    {[op |-> "extract", messages |-> m, done |-> FALSE, result |-> NoText] :
        m \in MessageLists}

\* _extract_last_user_message(messages)
ApplyExtract ==
    /\ fn.op = "extract" /\ ~fn.done
    /\ fn' = [fn EXCEPT !.done = TRUE, !.result = ExtractLastUserMessage(fn.messages)]
    /\ UNCHANGED <<storeVars, diskVars, pc, local, req, task, returned, saved, boots, served>>

Extracted == fn.op = "extract" /\ fn.done

\* the text-bearing parts of a content, in order
TextParts(content) ==
    IF "parts" \in DOMAIN content
    THEN SelectSeq(content.parts, LAMBDA part : part.kind = "text")
    ELSE <<[kind |-> "text", text |-> content.text]>>

\* the words of a text that are not white space
Words(text) == SelectSeq(text, LAMBDA w : w # " ")

\* the words of a content's text-bearing parts, in order
RECURSIVE WordsOfParts(_)
WordsOfParts(parts) ==
    IF parts = <<>> THEN <<>> ELSE Words(Head(parts).text) \o WordsOfParts(Tail(parts))

\* C29, as claimed: the query is the text of the most recent message of role
\* user, made of its text-bearing parts only; when that message carries no
\* text, nothing is extracted
C29_QueryIsLastUserText ==
    Extracted =>
        LET users == {i \in 1..Len(fn.messages) : fn.messages[i].role = "user"}
        IN IF users = {}
           THEN fn.result = NoText
           ELSE LET last == fn.messages[CHOOSE i \in users : \A j \in users : j <= i]
                IN Words(fn.result) = WordsOfParts(TextParts(last.content))

\* blocks as build_memory_block gives them: none, the notice, a memory section
CallBlocks ==
    {BuildMemoryBlock(r, ProxyConfig, t) : r \in {q \in HitLists : Len(q) <= 1}, t \in {0, 2}}

InjectCalls ==
    {[op |-> "inject", messages |-> m, block |-> b, done |-> FALSE,
      result |-> <<>>, heap |-> CallerHeap(m)] :
        m \in MessageLists, b \in CallBlocks}

\* inject_context_into_messages(messages, context_block): the value returned,
\* and the objects after the call
ApplyInject ==
    /\ fn.op = "inject" /\ ~fn.done
    /\ fn' = [fn EXCEPT !.done = TRUE,
                        !.result = InjectContextIntoMessages(fn.messages, fn.block),
                        !.heap = InjectInHeap(fn.heap, fn.block)]
    /\ UNCHANGED <<storeVars, diskVars, pc, local, req, task, returned, saved, boots, served>>

InjectDone == fn.op = "inject" /\ fn.done

\* C26: after inject_context_into_messages the caller's list holds the same
\* message objects in the same order, and each of them has the content it had
\* before the call, with or without a block
C26_CallerMessagesUntouched ==
    InjectDone =>
        /\ fn.heap.lists[1] = [i \in 1..Len(fn.messages) |-> i]
        /\ \A i \in 1..Len(fn.messages) : fn.heap.dicts[i] = fn.messages[i]
        /\ Deref(fn.heap, fn.heap.cur) = fn.result

\* a block was joined to the system message of the list returned, while the
\* caller's system message is as it was
C26_Witness ==
    /\ InjectDone
    /\ fn.block # NoBlock
    /\ fn.messages # <<>> /\ fn.messages[1].role = "system"
    /\ fn.result[1] # fn.messages[1]
    /\ fn.heap.dicts[fn.heap.lists[1][1]] = fn.messages[1]

PureStep == ApplyFormat \/ ApplyExtract \/ ApplyInject

InitPure == InitProgram /\ fn \in FormatCalls \cup ExtractCalls \cup InjectCalls

NextPure == PureStep

SpecPure == InitPure /\ [][NextPure]_vars


----------------------------------------------------------------------------
(* search_relevant under every threshold, next to concurrent inserts *)

\* thresholds in tenths: one that keeps every hit, the default, and one that
\* no inner product of unit vectors reaches
Thresholds == {2, similarity_threshold, 11}
SearchQueries == {<<"ta">>, <<"tb">>}

SearchCall(t) ==
    /\ pc[t] = "idle"
    /\ \/ \E msg \in Messages, dimOk \in BOOLEAN : StoreMessage(t, msg, dimOk, "idle", "idle")
       \/ \E q \in SearchQueries, top_k \in TopKs, threshold \in Thresholds :
               SearchRelevant(t, q, top_k, threshold, "idle")

SearchStep(t) ==
    \/ SmAdd(t)
    \/ SmAppendMap(t)
    \/ SmSetMeta(t)
    \/ SrComputeK(t)
    \/ SrSearch(t)
    \/ SrUnlock(t)
    \/ SrLoop(t)

NextSearch ==
    \/ \E t \in Callers : SearchCall(t)
    \/ \E t \in Callers : SearchStep(t)

SpecSearch == Init /\ [][NextSearch]_vars

\* C22: every hit that a turn of the result loop leaves in the results of a
\* search has a similarity of at least the threshold the search was called
\* with; a search that returns without a loop returns no hit
C22_NoHitBelowThreshold ==
    [][\A t \in Callers :
          /\ pc[t] = "sr_loop" =>
                \A i \in 1..Len(local'[t].results) :
                    local'[t].results[i].similarity >= local[t].threshold
          /\ (pc[t] = "idle" /\ pc'[t] = "idle" /\ local'[t] # local[t]) =>
                local'[t].results = <<>>]_vars

\* the loop has kept a hit and is about to drop one that is below the threshold
C22_Witness ==
    \E t \in Callers :
        /\ pc[t] = "sr_loop"
        /\ local[t].results # <<>>
        /\ Head(local[t].found).score < local[t].threshold

\* the records that are stored in full
StoredRecords == {i \in 1..Len(id_map) : i <= Len(index) /\ id_map[i] \in DOMAIN metadata}

\* C23: a search returns at most min(top_k, count) hits, count being the
\* number of records stored when it returns, also next to inserts; a search
\* called on an empty store returns the empty list at once, and no other
\* search does
C23_AtMostMinTopKCount ==
    [][\A t \in Callers :
          /\ (pc[t] = "sr_loop" /\ pc'[t] = "idle") =>
                /\ Len(local'[t].results) <= Min(local[t].top_k, ntotal')
                /\ Len(local'[t].results) <= Cardinality(StoredRecords')
          /\ (pc[t] = "idle" /\ local'[t].op = "search_relevant" /\ ntotal = 0
                /\ (pc'[t] # "idle" \/ local'[t] # local[t])) =>
                pc'[t] = "idle" /\ local'[t].results = <<>>
          /\ (pc[t] = "idle" /\ pc'[t] = "sr_k") => ntotal > 0]_vars

\* a search computed k on a store of one record, and an insert has completed
\* before its loop ends: top_k and the count are both above k
C23_Witness ==
    \E t \in Callers :
        /\ pc[t] = "sr_loop"
        /\ local[t].k = 1 /\ local[t].top_k = 2
        /\ Cardinality(StoredRecords) >= 2

\* C32: no step of store_message or search_relevant changes a record that is
\* stored: its vector stays at its position of the index, its id at the same
\* position of the id map, its metadata entry under the same id with the same
\* content; no entry is removed
C32_StoredRecordsKept ==
    [][/\ Len(index') >= Len(index)
       /\ \A i \in 1..Len(index) : index'[i] = index[i]
       /\ Len(id_map') >= Len(id_map)
       /\ \A i \in 1..Len(id_map) : id_map'[i] = id_map[i]
       /\ \A id \in DOMAIN metadata :
             id \in DOMAIN metadata' /\ metadata'[id] = metadata[id]]_vars

\* two records are stored in full, the first before the second, and a search
\* has returned a hit
C32_Witness ==
    /\ NoInsertRunning
    /\ Cardinality(StoredRecords) = 2
    /\ \E t \in Callers : local[t].op = "search_relevant" /\ local[t].results # <<>>

\* C33, as claimed: the step on which a store_message call fails (the index
\* rejects the vector) leaves the index, the id map and the metadata as they
\* are and next_id as it was when the call began, so that the id the call
\* took is given to the next insert
C33_FailedInsertChangesNothing ==
    [][\A t \in Threads :
          (pc[t] = "sm_add" /\ ~local[t].dimOk) =>
              /\ index' = index /\ id_map' = id_map /\ metadata' = metadata
              /\ next_id' = local[t].ctx_id]_vars

\* C35, as claimed: the store that a start of the process constructs from the
\* files it finds has as many vectors as id-map entries and as metadata
\* entries, and every id of the id map and of the metadata is below next_id
C35_LoadedStoreConsistent ==
    [][boots' # boots =>
          /\ Len(index') = Len(id_map')
          /\ Len(id_map') = Cardinality(DOMAIN metadata')
          /\ \A i \in 1..Len(id_map') : id_map'[i] < next_id'
          /\ \A id \in DOMAIN metadata' : id < next_id']_vars

----------------------------------------------------------------------------
(* Searches next to inserts over the lives of the process: the store that a
   search reads may be one that a start has loaded from the files *)

RecoverCall(t) ==
    /\ pc[t] = "idle"
    /\ \/ /\ next_id < MaxStored
          /\ \E msg \in Messages : StoreMessage(t, msg, TRUE, "idle", "idle")
       \/ \E q \in Queries, top_k \in TopKs :
               SearchRelevant(t, q, top_k, similarity_threshold, "idle")
       \/ Save(t, "idle", "idle")

RecoverStep(t) ==
    \/ SmAdd(t)
    \/ SmAppendMap(t)
    \/ SmSetMeta(t)
    \/ SrComputeK(t)
    \/ SrSearch(t)
    \/ SrUnlock(t)
    \/ SrLoop(t)
    \/ SvWriteIndex(t, "ok")
    \/ SvWriteMeta(t, "ok")

NextRecover ==
    \/ \E t \in Callers : RecoverCall(t)
    \/ \E t \in Callers : RecoverStep(t)
    \/ Restart

SpecRecover == Init /\ [][NextRecover]_vars

\* C34, as claimed: a hit that the result loop adds for a position that the
\* index search matched carries the id that the id map holds at that position
\* and the metadata entry of that id, which is the record whose vector is at
\* the position: the vector of its text; the metadata is never the empty dict
C34_HitCarriesItsRecord ==
    [][\A t \in Callers :
          (pc[t] = "sr_loop" /\ Len(local'[t].results) > Len(local[t].results)) =>
              LET h == Head(local[t].found)
                  hit == local'[t].results[Len(local'[t].results)]
              IN /\ h.idx <= Len(id_map) /\ h.idx <= Len(index)
                 /\ hit.ctx_id = id_map[h.idx]
                 /\ hit.ctx_id \in DOMAIN metadata
                 /\ hit.metadata = metadata[hit.ctx_id]
                 /\ hit.metadata # EmptyDict
                 /\ index[h.idx] = Embed(hit.metadata.text)]_vars

\* the request is handled as passthrough: the bytes received were sent on
Passthrough(r) == r.sent.kind = "raw"

\* handler h takes this step
HandlerMoves(h) == pc'[h] # pc[h] \/ req'[h] # req[h]

\* C37: a request handled as passthrough (another path, or a chat or generate
\* body that cannot be parsed) is never inside a store method and has no
\* background write, and no step of its handler changes the store, the files
\* or a background write
C37_PassthroughLeavesStore ==
    [][\A h \in Handlers :
          /\ Passthrough(req[h]) =>
                /\ pc[h] \in {"pt_wait", "h_done"}
                /\ local[h] = DefaultLocal
                /\ req[h].writer = NoThread
                /\ req[h].results = <<>> /\ req[h].block = NoBlock
          /\ (HandlerMoves(h) /\ (Passthrough(req[h]) \/ Passthrough(req'[h]))) =>
                /\ index' = index /\ id_map' = id_map /\ metadata' = metadata
                /\ next_id' = next_id /\ lock' = lock
                /\ faiss_file' = faiss_file /\ meta_file' = meta_file
                /\ task' = task
                /\ \A w \in Writers : pc'[w] = pc[w]]_vars

\* a request to another path was relayed while the store holds a record and
\* the background write of an earlier request is under way
C37_Witness ==
    \E h \in Handlers, w \in Writers :
        /\ req[h].endpoint = "other" /\ Passthrough(req[h]) /\ pc[h] = "h_done"
        /\ ntotal > 0
        /\ pc[w] \notin {"idle", "w_ready"}

----------------------------------------------------------------------------
(* Background writes side by side: each exchange that ends creates a task of
   its own (asyncio.create_task), and the tasks' store calls run in worker
   threads, so the steps of two writes interleave *)

\* the texts of an exchange: both stored; the user text only (the answer is a
\* refusal); none (a short user text and a refusal)
Exchange(user_text, assistant_text) ==
    [user_text |-> user_text, assistant_text |-> assistant_text]
Exchanges ==
    {Exchange(<<"ta">>, <<"he", "he">>), Exchange(<<"tb">>, <<"NO">>),
     Exchange(<<"hi">>, <<"NO">>)}

\* asyncio.create_task(_store_conversation(user_text, assistant_text, model)),
\* once per exchange
Schedule(w, e) ==
    /\ pc[w] = "idle"
    /\ served < MaxRequests
    /\ served' = served + 1
    /\ \A v \in BackgroundTasks : task[v].user_text # e.user_text
    /\ \A id \in DOMAIN metadata : metadata[id].text # e.user_text
    /\ task' = [task EXCEPT ![w] = [DefaultTask EXCEPT !.user_text = e.user_text,
                                       !.assistant_text = e.assistant_text,
                                       !.relayed = TRUE]]
    /\ pc' = [pc EXCEPT ![w] = "w_ready"]
    /\ UNCHANGED <<storeVars, diskVars, local, req, returned, saved, boots, fn>>

WritesStep(w) ==
    \/ \E e \in Exchanges : Schedule(w, e)
    \/ WStart(w, TRUE)
    \/ WStoreUser(w, TRUE)
    \/ WAssistant(w, TRUE, TRUE)
    \/ WSave(w)
    \/ WDone(w)

WritesStoreStep(t) ==
    \/ SmAdd(t)
    \/ SmAppendMap(t)
    \/ SmSetMeta(t)
    \/ SvWriteIndex(t, "ok")
    \/ SvWriteMeta(t, "ok")

NextWrites ==
    \/ \E w \in BackgroundTasks : WritesStep(w)
    \/ \E w \in BackgroundTasks : WritesStoreStep(w)

SpecWrites == Init /\ [][NextWrites]_vars

\* the exchanges of which the write stores both texts
StoredInFull == {e \in Exchanges : UserStorable(e.user_text) /\ AssistantStorable(e.assistant_text)}

\* the id of the user record of an exchange
UserIdOf(e) ==
    CHOOSE id \in DOMAIN metadata :
        metadata[id].text = e.user_text /\ metadata[id].role = "user"

\* C36, as claimed, the ids: the record that has the id after the id of an
\* exchange's user record is the assistant record of that exchange
C36_ConsecutiveIds ==
    \A e \in StoredInFull :
        (HasRecord(e.user_text, "user") /\ UserIdOf(e) + 1 \in DOMAIN metadata) =>
            metadata[UserIdOf(e) + 1] = [text |-> e.assistant_text, role |-> "assistant"]

\* C36, as claimed, the snapshots: files that hold the user record of an
\* exchange of which both texts are stored hold its assistant record too
C36_SnapshotsHoldPairs ==
    \A e \in StoredInFull :
        FileHasRecord(e.user_text, "user") => FileHasRecord(e.assistant_text, "assistant")

\* C36, as claimed: the user record and the assistant record of an exchange
\* have consecutive ids, no record of another exchange between them, and no
\* snapshot holds the user record without the assistant record
C36_ExchangeRecordsTogether == C36_ConsecutiveIds /\ C36_SnapshotsHoldPairs

====
